---- MODULE Spec2Model ----
(***************************************************************************)
(* Event-assembly and relay-publication pipeline of the NIP-68 / NIP-71    *)
(* command line tools (cmd/nip71/main.go, cmd/nip68/main.go and the        *)
(* utils package they call).                                               *)
(*                                                                         *)
(* One invocation of one of the two programs is one behaviour.  The        *)
(* external collaborators (blob storage, HTTP download, ffmpeg, relays,    *)
(* the clock, the signer library) answer nondeterministically.             *)
(***************************************************************************)
EXTENDS Integers, Sequences, FiniteSets, TLC

VARIABLES
    prog,         \* which main() runs: "nip71" or "nip68"
    videoURL,     \* flag -url   (nip71)
    videoFile,    \* flag -file  (nip71)
    imageURLs,    \* flag -url   (nip68, repeatable)
    imageFiles,   \* flag -file  (nip68, repeatable)
    title,        \* flag -title
    description,  \* flag -description
    publishedAt,  \* flag -published_at
    descriptor,   \* flag -descriptor (nip71)
    diff,         \* flag -diff
    isLegacy,     \* flag -legacy (nip71)
    relay,        \* flag -relay
    r,            \* flag -r
    media,        \* the media the run works on: [width, height]
    relayFile,    \* what relays.json holds: a list of strings, or "bad"
    latencies,    \* how long a relay operation may take, in seconds
    clock,        \* wall clock, seconds
    pc,           \* position of main()
    item,         \* loop index of the nip68 file / url loops
    videoPath,    \* local path that is fingerprinted
    info,         \* result of ExtractMediaInfo
    imetaTags,    \* nip68: the imeta tags collected so far
    event,        \* the nostr.Event under construction
    nonce,        \* proof-of-work counter
    powBase,      \* the event as it was when Pow was entered
    powId,        \* identifier the proof-of-work search accepted
    tmpFiles,     \* temporary files that exist on disk
    deferred,     \* main()'s deferred os.Remove calls
    imageURL,     \* nip68: URL of the item being processed
    printed,      \* the event was written to standard output
    failed,       \* the stage whose error ended the run, or ""
    stages,       \* pipeline stages that ran, in order
    relays,       \* the list handed to PublishEvent
    idx,          \* PublishEvent loop index
    rl,           \* per list entry: what PublishEvent did with it
    open,         \* connections currently open (list entries)
    closers,      \* PublishEvent's deferred relay.Close calls, in order
    closeLog,     \* order in which connections were closed
    wire,         \* events transmitted by relay.Publish, in order
    args,         \* the command line as it was given: [publishedAt, videoURL]
    startedAt,    \* the time parseAndInitParams read, 0 if it read none
    uploadInfo,   \* main's uploadInfo: the last descriptor UploadFile returned
    exit          \* "running", "ok" (main returned) or "fatal" (log.Fatalf)

vars == <<prog, videoURL, videoFile, imageURLs, imageFiles, title,
          description, publishedAt, descriptor, diff, isLegacy, relay, r,
          media, relayFile, latencies, clock, pc, item, videoPath, info, imetaTags,
          event, nonce, powBase, powId, tmpFiles, deferred, imageURL, printed,
          failed, stages,
          relays, idx, rl, open, closers, closeLog, wire, args, startedAt,
          uploadInfo, exit>>

flagVars == <<prog, videoFile, imageURLs, imageFiles, title, description,
              descriptor, diff, isLegacy, relay, r, media, relayFile, latencies,
              args>>

readVars == <<startedAt, uploadInfo>>

itemVars == <<item, videoPath, info, imetaTags, imageURL>>

powVars == <<nonce, powBase, powId>>

fileVars == <<tmpFiles, deferred>>

pubVars == <<relays, idx, rl, open, closers, closeLog, wire>>

(***************************************************************************)
(* Bounds of the model.                                                    *)
(***************************************************************************)
IdBits == 4        \* width of the modelled event identifier, in bits
MaxDim == 2        \* widths and heights range over 1..MaxDim
MaxDiff == 2       \* largest proof-of-work target tried
MaxRelays == 3     \* longest relay list
MaxTicks == 1      \* how far the wall clock may advance during a run

(***************************************************************************)
(* Arithmetic helpers.                                                     *)
(***************************************************************************)
RECURSIVE Pow2(_)
Pow2(n) == IF n = 0 THEN 1 ELSE 2 * Pow2(n - 1)

RECURSIVE BitLen(_)
BitLen(n) == IF n = 0 THEN 0 ELSE 1 + BitLen(n \div 2)

\* the element of a one-element set.  The digest operators below bind their
\* argument through it, so that the argument is evaluated once.
The(S) == CHOOSE v \in S : TRUE

RECURSIVE SumSeq(_)
SumSeq(s) ==
    The({ IF t = <<>> THEN 0 ELSE Head(t) + SumSeq(Tail(t)) : t \in {s} })

MaxNonce == Pow2(IdBits) - 1

(***************************************************************************)
(* The strings the runs work with.                                         *)
(***************************************************************************)
UserURL == "https://x/v.mp4"           \* a well-formed URL given with -url
OtherURL == "https://y/w.jpg"          \* another well-formed URL
BadURL == "not a url"                  \* a string url.ParseRequestURI rejects
BlobURL(path) == "https://cdn/" \o path  \* "url" of the upload descriptor
TempPath(n) == "/tmp/video-" \o ToString(n) \o ".mp4"   \* os.CreateTemp
RelayA == "wss://a"
RelayB == "ws://b"
RelaysJSON == "relays.json"            \* an existing relay-list file
NoSuchFile == "missing.json"           \* a path os.Stat does not find
AuthRequiredPrefix == "msg: auth-required:"
SecretKey == "k1"
PublicKey == "pk1"
StartTime == 1700                      \* wall clock when the run starts
UploadedTenths == 12345                \* "uploaded" of the descriptor, in 1/10 s

WellFormedURIs == { UserURL, OtherURL } \cup { BlobURL(p) : p \in {"v.mp4", "a.jpg", "b.jpg"} }

\* strings.HasPrefix(s, "ws://") || strings.HasPrefix(s, "wss://")
HasWsPrefix(s) == s \in { RelayA, RelayB }

\* strings.HasPrefix(err.Error(), "msg: auth-required:") over the errors
\* relay.Publish returns in the model
PublishErrors == { AuthRequiredPrefix \o " login", "msg: blocked: spam",
                   "context deadline exceeded" }
IsAuthRequired(err) == err = AuthRequiredPrefix \o " login"

\* strconv.ParseInt(s, 10, 64) succeeds
DecimalStrings == { ToString(StartTime + k) : k \in 0..(MaxTicks + 1) }
                    \cup { ToString(UploadedTenths \div 10), "1600" }
ParsesAsInt(s) == s \in DecimalStrings

(***************************************************************************)
(* nostr.Event: identifier and signature.                                  *)
(*                                                                         *)
(* The identifier is the digest of the serialization                       *)
(* [0, pubkey, created_at, kind, tags, content]; sha256 is modelled by an  *)
(* IdBits wide digest that depends on every serialized field.              *)
(***************************************************************************)
NoID == <<>>
NoSig == <<>>

\* the number a decimal string of a nonce stands for, plus one; 0 otherwise
NonceStrings == [n \in 0..MaxNonce |-> ToString(n)]

NumOf(s) ==
    IF \E n \in 0..MaxNonce : NonceStrings[n] = s
    THEN 1 + (CHOOSE n \in 0..MaxNonce : NonceStrings[n] = s)
    ELSE 0

StrCode(s) == The({ IF NumOf(v) > 0 THEN NumOf(v) ELSE Len(v) + 1 : v \in {s} })

TagCode(tag) ==
    The({ SumSeq([j \in 1..Len(t) |-> (2 * j - 1) * StrCode(t[j])]) : t \in {tag} })

TagsCode(tags) ==
    The({ SumSeq([k \in 1..Len(t) |-> (2 * k - 1) * TagCode(t[k])]) : t \in {tags} })

Serialize(ev) == <<0, ev.PubKey, ev.CreatedAt, ev.Kind, ev.Tags, ev.Content>>

Digest(ser) ==
    (7 * StrCode(ser[2]) + 3 * ser[3] + 5 * ser[4] + TagsCode(ser[5])
       + 11 * StrCode(ser[6])) % Pow2(IdBits)

\* Event.GetID
GetID(ev) == The({ <<Digest(Serialize(e))>> : e \in {ev} })

\* nip13.Difficulty: leading zero bits of the identifier
Difficulty(id) == IdBits - BitLen(id[1])

\* the signature over an identifier made with a secret key
Signature(key, id) == <<"sig", key, id>>

(***************************************************************************)
(* Event builder: cmd/nip71 createNip71Event, cmd/nip68 createNip68Event   *)
(* and addImageIMetaTag, up to the call of utils.Pow.                      *)
(***************************************************************************)
KindVideo == 21              \* current horizontal video; vertical is one more
KindLegacyVideo == 34235     \* legacy horizontal video; vertical is one more
KindPicture == 20

\* mutant of VideoKind: a square video counts as vertical
VideoKindSquareIsVertical(legacy, height, width) ==
    LET base == IF legacy THEN KindLegacyVideo ELSE KindVideo
    IN  IF height >= width THEN base + 1 ELSE base

\* the event kind chosen by createNip71Event
VideoKind(legacy, height, width) ==
    LET base == IF legacy THEN KindLegacyVideo ELSE KindVideo
    IN  IF height > width THEN base + 1 ELSE base

\* the alt text chosen by createNip71Event
VideoAlt(height, width) ==
    IF height > width THEN "Vertical Video" ELSE "Horizontal Video"

\* mutant of DTag: the descriptor is ignored
DTagIgnoresDescriptor(videoHash, desc) == videoHash

\* the value of the d tag
DTag(videoHash, desc) == IF desc /= "" THEN desc ELSE videoHash

\* mutant of DimEntry: the height is written first
DimEntryHeightFirst(width, height) ==
    "dim " \o ToString(height) \o "x" \o ToString(width)

\* fmt.Sprintf("dim %dx%d", width, height)
DimEntry(width, height) == "dim " \o ToString(width) \o "x" \o ToString(height)

VideoIMeta(url, inf, alt) ==
    << "imeta",
       "url " \o url,
       "m " \o inf.mime,
       "alt " \o alt,
       "x " \o inf.hash,
       "size " \o ToString(inf.fileSize),
       DimEntry(inf.width, inf.height),
       "blurhash " \o inf.bhash >>

\* the tags of the event createNip71Event hands to Pow
Nip71Tags(inf, ttl, pubAt, url, desc, legacy) ==
    LET alt == VideoAlt(inf.height, inf.width)
        base == << <<"alt", alt>>,
                   <<"title", ttl>>,
                   <<"published_at", pubAt>>,
                   VideoIMeta(url, inf, alt) >>
    IN  IF legacy THEN Append(base, <<"d", DTag(inf.hash, desc)>>) ELSE base

\* the event createNip71Event hands to Pow
Nip71Event(inf, ttl, pubAt, url, content, desc, legacy, pubKey, now) ==
    [ Kind      |-> VideoKind(legacy, inf.height, inf.width),
      PubKey    |-> pubKey,
      CreatedAt |-> now,
      Tags      |-> Nip71Tags(inf, ttl, pubAt, url, desc, legacy),
      Content   |-> content,
      ID        |-> NoID,
      Sig       |-> NoSig ]

\* addImageIMetaTag
ImageIMeta(url, inf) ==
    << "imeta",
       "url " \o url,
       "x " \o inf.hash,
       DimEntry(inf.width, inf.height),
       "m " \o inf.mime,
       "blurhash " \o inf.bhash >>

\* the event createNip68Event hands to Pow
Nip68Event(imetas, ttl, pubAt, content, pubKey, now) ==
    [ Kind      |-> KindPicture,
      PubKey    |-> pubKey,
      CreatedAt |-> now,
      Tags      |-> << <<"title", ttl>>, <<"published_at", pubAt>> >> \o imetas,
      Content   |-> content,
      ID        |-> NoID,
      Sig       |-> NoSig ]

\* the zero nostr.Event, before anything is built
NoEvent ==
    [ Kind |-> 0, PubKey |-> "", CreatedAt |-> 0, Tags |-> <<>>,
      Content |-> "", ID |-> NoID, Sig |-> NoSig ]

(***************************************************************************)
(* Proof of work: utils.Pow and the search of nip13.DoWork.                *)
(***************************************************************************)
\* the nonce tag the search tries: name, nonce, target difficulty
NonceTag(n, target) == <<"nonce", ToString(n), ToString(target)>>

\* the event the search hashes for nonce n: a copy with the nonce tag appended
WithNonce(ev, n, target) == [ev EXCEPT !.Tags = Append(ev.Tags, NonceTag(n, target))]

\* whether nonce n wins
NonceWins(ev, n, target) == Difficulty(GetID(WithNonce(ev, n, target))) >= target

\* mutant of AppendNonce: the nonce tag is put in front
AppendNonceInFront(tags, n, target) == <<NonceTag(n, target)>> \o tags

\* event.Tags = append(event.Tags, nounce)
AppendNonce(tags, n, target) == Append(tags, NonceTag(n, target))

(***************************************************************************)
(* Signer: keyer.KeySigner.SignEvent, which is Event.Sign.                 *)
(***************************************************************************)
SignEvent(ev, key, pubKey) ==
    LET withKey == [ev EXCEPT !.PubKey = pubKey]
        id == GetID(withKey)
    IN  [withKey EXCEPT !.ID = id, !.Sig = Signature(key, id)]

\* the fingerprint ExtractMediaInfo returns for a path
MediaInfo(path, m, kind) ==
    [ width    |-> m.width,
      height   |-> m.height,
      fileSize |-> 1000,
      hash     |-> "sha-" \o path,
      bhash    |-> "bh-" \o path,
      mime     |-> IF kind = "video" THEN "video/mp4" ELSE "image/jpeg" ]

(***************************************************************************)
(* Control: how a step of main() ends.                                     *)
(***************************************************************************)
\* execution continues at position p
Goto(p) == pc' = p /\ exit' = exit /\ failed' = failed

\* log.Fatalf: the process exits at once, deferred calls do not run
Fatalf(stage) == pc' = "done" /\ exit' = "fatal" /\ failed' = stage

\* time.Now().Unix() / nostr.Now(): the clock may have advanced since it
\* was last read
NowValues == { t \in clock..(clock + 1) : t <= StartTime + MaxTicks }

NoInfo == [ width |-> 0, height |-> 0, fileSize |-> 0, hash |-> "",
            bhash |-> "", mime |-> "" ]

\* uploadInfo before any upload
NoUploadInfo == [url |-> "", uploaded |-> [numeric |-> FALSE, tenths |-> 0]]

\* the state of a run when main() is entered, flags parsed
RunStart ==
    /\ clock = StartTime
    /\ pc = "parse"
    /\ item = 1
    /\ videoPath = ""
    /\ info = NoInfo
    /\ imetaTags = <<>>
    /\ imageURL = ""
    /\ event = NoEvent
    /\ nonce = 0
    /\ powBase = NoEvent
    /\ powId = NoID
    /\ tmpFiles = {}
    /\ deferred = <<>>
    /\ printed = FALSE
    /\ failed = ""
    /\ stages = <<>>
    /\ relays = <<>>
    /\ idx = 1
    /\ rl = <<>>
    /\ open = {}
    /\ closers = <<>>
    /\ closeLog = <<>>
    /\ wire = <<>>
    /\ args = [publishedAt |-> publishedAt, videoURL |-> videoURL]
    /\ startedAt = 0
    /\ uploadInfo = NoUploadInfo
    /\ exit = "running"

(***************************************************************************)
(* main(), before the event is built.                                      *)
(***************************************************************************)
\* parseAndInitParams: the default of -published_at
ParseAndInitParams ==
    /\ pc = "parse"
    /\ \/ /\ publishedAt = ""
          /\ \E now \in NowValues :
                /\ clock' = now
                /\ startedAt' = now
                /\ publishedAt' = ToString(now)
       \/ /\ publishedAt /= ""
          /\ UNCHANGED <<clock, startedAt, publishedAt>>
    /\ stages' = Append(stages, "parse")
    /\ Goto("check")
    /\ UNCHANGED <<flagVars, uploadInfo, videoURL, itemVars, event, powVars, fileVars,
                   printed, pubVars>>

\* a main that downloads the URL whenever one is given
RequireInputPrefersURL ==
    /\ pc = "check"
    /\ IF prog = "nip71"
       THEN IF videoURL = "" /\ videoFile = ""
            THEN Fatalf("input")
            ELSE Goto(IF videoURL /= "" THEN "download" ELSE "upload")
       ELSE IF Len(imageURLs) = 0 /\ Len(imageFiles) = 0
            THEN Fatalf("input")
            ELSE Goto(IF Len(imageFiles) > 0 THEN "upload" ELSE "download")
    /\ UNCHANGED <<flagVars, readVars, videoURL, publishedAt, clock, itemVars, event,
                   powVars, fileVars, printed, stages, pubVars>>

\* main: "Either -url or -file must be provided"
RequireInput ==
    /\ pc = "check"
    /\ IF prog = "nip71"
       THEN IF videoURL = "" /\ videoFile = ""
            THEN Fatalf("input")
            ELSE Goto(IF videoFile /= "" THEN "upload" ELSE "download")
       ELSE IF Len(imageURLs) = 0 /\ Len(imageFiles) = 0
            THEN Fatalf("input")
            ELSE Goto(IF Len(imageFiles) > 0 THEN "upload" ELSE "download")
    /\ UNCHANGED <<flagVars, readVars, videoURL, publishedAt, clock, itemVars, event,
                   powVars, fileVars, printed, stages, pubVars>>

\* mutant of UploadedAt: the reported upload time is not used
UploadedAtWallClock(uploaded, now) == ToString(now)

\* the value main stores in publishedAt after an upload
UploadedAt(uploaded, now) ==
    IF uploaded.numeric THEN ToString(uploaded.tenths \div 10) ELSE ToString(now)

\* the descriptors the storage endpoint may answer with
UploadAnswers(path) ==
    { [url |-> u, uploaded |-> up] :
        u \in { BlobURL(path), BadURL },
        up \in { [numeric |-> TRUE, tenths |-> UploadedTenths],
                 [numeric |-> FALSE, tenths |-> 0] } }

\* a main that takes the publish time from the first upload only
UploadFileKeepsFirstTime ==
    /\ pc = "upload"
    /\ LET path == IF prog = "nip71" THEN videoFile ELSE imageFiles[item]
       IN  \/ /\ Fatalf("upload")
              /\ UNCHANGED <<videoURL, publishedAt, clock, itemVars, uploadInfo>>
           \/ \E ans \in UploadAnswers(path) :
                /\ uploadInfo' = ans
                /\ \/ /\ ans.uploaded.numeric
                      /\ publishedAt' = IF item = 1 THEN UploadedAt(ans.uploaded, clock)
                                      ELSE publishedAt
                      /\ clock' = clock
                   \/ /\ ~ans.uploaded.numeric
                      /\ \E now \in NowValues :
                            /\ clock' = now
                            /\ publishedAt' = IF item = 1
                                              THEN UploadedAt(ans.uploaded, now)
                                              ELSE publishedAt
                /\ videoPath' = path
                /\ IF prog = "nip71"
                   THEN /\ videoURL' = ans.url
                        /\ imageURL' = imageURL
                        /\ Goto("validate")
                   ELSE /\ imageURL' = ans.url
                        /\ videoURL' = videoURL
                        /\ Goto("imetaFile")
                /\ UNCHANGED <<item, info, imetaTags>>
    /\ stages' = Append(stages, "upload")
    /\ UNCHANGED <<flagVars, startedAt, event, powVars, fileVars, printed, pubVars>>

\* utils.UploadFile and what main does with its result
UploadFile ==
    /\ pc = "upload"
    /\ LET path == IF prog = "nip71" THEN videoFile ELSE imageFiles[item]
       IN  \/ /\ Fatalf("upload")
              /\ UNCHANGED <<videoURL, publishedAt, clock, itemVars, uploadInfo>>
           \/ \E ans \in UploadAnswers(path) :
                /\ uploadInfo' = ans
                /\ \/ /\ ans.uploaded.numeric
                      /\ publishedAt' = UploadedAt(ans.uploaded, clock)
                      /\ clock' = clock
                   \/ /\ ~ans.uploaded.numeric
                      /\ \E now \in NowValues :
                            /\ clock' = now
                            /\ publishedAt' = UploadedAt(ans.uploaded, now)
                /\ videoPath' = path
                /\ IF prog = "nip71"
                   THEN /\ videoURL' = ans.url
                        /\ imageURL' = imageURL
                        /\ Goto("validate")
                   ELSE /\ imageURL' = ans.url
                        /\ videoURL' = videoURL
                        /\ Goto("imetaFile")
                /\ UNCHANGED <<item, info, imetaTags>>
    /\ stages' = Append(stages, "upload")
    /\ UNCHANGED <<flagVars, startedAt, event, powVars, fileVars, printed, pubVars>>

\* utils.DownloadVideo and the defer os.Remove that follows it
DownloadVideo ==
    /\ pc = "download"
    /\ LET url == IF prog = "nip71" THEN videoURL ELSE imageURLs[item]
           tmp == TempPath(Cardinality(tmpFiles) + 1)
       IN  \/ \* http.Get fails or the status is not 200 / 206
              /\ Fatalf("download")
              /\ UNCHANGED <<itemVars, fileVars>>
           \/ \* io.Copy fails after os.CreateTemp
              /\ url \in WellFormedURIs
              /\ tmpFiles' = tmpFiles \cup {tmp}
              /\ Fatalf("download")
              /\ UNCHANGED <<itemVars, deferred>>
           \/ /\ url \in WellFormedURIs
              /\ tmpFiles' = tmpFiles \cup {tmp}
              /\ deferred' = Append(deferred, tmp)
              /\ videoPath' = tmp
              /\ IF prog = "nip71"
                 THEN imageURL' = imageURL /\ Goto("validate")
                 ELSE imageURL' = url /\ Goto("imetaURL")
              /\ UNCHANGED <<item, info, imetaTags>>
    /\ stages' = Append(stages, "download")
    /\ UNCHANGED <<flagVars, readVars, videoURL, publishedAt, clock, event, powVars,
                   printed, pubVars>>

\* utils.ValidateInput: the error it returns, "" for nil
ValidationError(url, ttl, pubAt) ==
    IF url = "" THEN "video URL cannot be empty"
    ELSE IF url \notin WellFormedURIs THEN "invalid video URL"
    ELSE IF pubAt = "" THEN "published_at cannot be empty"
    ELSE IF ~ParsesAsInt(pubAt) THEN "invalid published_at timestamp"
    ELSE ""

\* mutant of ValidateInput: the error is logged and the run goes on
ValidateInputLogsOnly ==
    /\ pc = "validate"
    /\ IF ValidationError(videoURL, title, publishedAt) /= ""
       THEN pc' = "extract" /\ exit' = exit /\ failed' = "validate"
       ELSE Goto("extract")
    /\ stages' = Append(stages, "validate")
    /\ UNCHANGED <<flagVars, readVars, videoURL, publishedAt, clock, itemVars, event,
                   powVars, fileVars, printed, pubVars>>

\* main (nip71): "Validate input parameters"
ValidateInput ==
    /\ pc = "validate"
    /\ IF ValidationError(videoURL, title, publishedAt) /= ""
       THEN Fatalf("validate")
       ELSE Goto("extract")
    /\ stages' = Append(stages, "validate")
    /\ UNCHANGED <<flagVars, readVars, videoURL, publishedAt, clock, itemVars, event,
                   powVars, fileVars, printed, pubVars>>

\* main (nip71): utils.ExtractMediaInfo(videoPath, "video")
ExtractMediaInfo ==
    /\ pc = "extract"
    /\ \/ /\ Fatalf("fingerprint")
          /\ info' = info
       \/ /\ info' = MediaInfo(videoPath, media, "video")
          /\ Goto("build")
    /\ stages' = Append(stages, "fingerprint")
    /\ UNCHANGED <<flagVars, readVars, videoURL, publishedAt, clock, item, videoPath,
                   imetaTags, imageURL, event, powVars, fileVars, printed,
                   pubVars>>

\* mutant of AddImageIMetaTag: the new tag is put in front of the others
AddImageIMetaTagInFront ==
    /\ pc \in {"imetaFile", "imetaURL"}
    /\ \/ /\ Fatalf("fingerprint")
          /\ UNCHANGED <<item, imetaTags>>
       \/ /\ imetaTags' = << ImageIMeta(imageURL, MediaInfo(videoPath, media, "image")) >>
                               \o imetaTags
          /\ IF pc = "imetaFile"
             THEN IF item < Len(imageFiles)
                  THEN item' = item + 1 /\ Goto("upload")
                  ELSE /\ item' = 1
                       /\ Goto(IF Len(imageURLs) > 0 THEN "download" ELSE "build")
             ELSE IF item < Len(imageURLs)
                  THEN item' = item + 1 /\ Goto("download")
                  ELSE item' = 1 /\ Goto("build")
    /\ stages' = Append(stages, "fingerprint")
    /\ UNCHANGED <<flagVars, readVars, videoURL, publishedAt, clock, videoPath, info,
                   imageURL, event, powVars, fileVars, printed, pubVars>>

\* main (nip68): imetaTags = append(imetaTags, addImageIMetaTag(path, url)),
\* and the step of the loop the call stands in
AddImageIMetaTag ==
    /\ pc \in {"imetaFile", "imetaURL"}
    /\ \/ /\ Fatalf("fingerprint")
          /\ UNCHANGED <<item, imetaTags>>
       \/ /\ imetaTags' = Append(imetaTags,
                 ImageIMeta(imageURL, MediaInfo(videoPath, media, "image")))
          /\ IF pc = "imetaFile"
             THEN IF item < Len(imageFiles)
                  THEN item' = item + 1 /\ Goto("upload")
                  ELSE /\ item' = 1
                       /\ Goto(IF Len(imageURLs) > 0 THEN "download" ELSE "build")
             ELSE IF item < Len(imageURLs)
                  THEN item' = item + 1 /\ Goto("download")
                  ELSE item' = 1 /\ Goto("build")
    /\ stages' = Append(stages, "fingerprint")
    /\ UNCHANGED <<flagVars, readVars, videoURL, publishedAt, clock, videoPath, info,
                   imageURL, event, powVars, fileVars, printed, pubVars>>

(***************************************************************************)
(* Build, proof of work, sign, print.                                      *)
(***************************************************************************)
\* mutant of CreateEvent: the builders leave PubKey to the signer
CreateEventWithoutPubKey ==
    /\ pc = "build"
    /\ \/ /\ Fatalf("build")
          /\ UNCHANGED <<event, clock, powVars>>
       \/ \E now \in NowValues :
            /\ clock' = now
            /\ event' = IF prog = "nip71"
                        THEN Nip71Event(info, title, publishedAt, videoURL,
                                        description, descriptor, isLegacy,
                                        "", now)
                        ELSE Nip68Event(imetaTags, title, publishedAt,
                                        description, "", now)
            /\ powBase' = event'
            /\ nonce' = 0
            /\ powId' = NoID
            /\ Goto("pow")
    /\ stages' = Append(stages, "build")
    /\ UNCHANGED <<flagVars, readVars, videoURL, publishedAt, itemVars, fileVars,
                   printed, pubVars>>

\* createNip71Event / createNip68Event up to the call of utils.Pow
CreateEvent ==
    /\ pc = "build"
    /\ \/ \* signer.GetPublicKey fails
          /\ Fatalf("build")
          /\ UNCHANGED <<event, clock, powVars>>
       \/ \E now \in NowValues :
            /\ clock' = now
            /\ event' = IF prog = "nip71"
                        THEN Nip71Event(info, title, publishedAt, videoURL,
                                        description, descriptor, isLegacy,
                                        PublicKey, now)
                        ELSE Nip68Event(imetaTags, title, publishedAt,
                                        description, PublicKey, now)
            /\ powBase' = event'
            /\ nonce' = 0
            /\ powId' = NoID
            /\ Goto("pow")
    /\ stages' = Append(stages, "build")
    /\ UNCHANGED <<flagVars, readVars, videoURL, publishedAt, itemVars, fileVars,
                   printed, pubVars>>

\* utils.Pow with diff <= 0: nothing to do
PowSkip ==
    /\ pc = "pow"
    /\ diff <= 0
    /\ Goto("sign")
    /\ stages' = Append(stages, "pow")
    /\ UNCHANGED <<flagVars, readVars, videoURL, publishedAt, clock, itemVars, event,
                   powVars, fileVars, printed, pubVars>>

\* mutant of PowTry: the search gives up after its second attempt
PowTryGivesUp ==
    /\ pc = "pow"
    /\ diff > 0
    /\ nonce <= MaxNonce
    /\ IF NonceWins(event, nonce, diff)
       THEN /\ event' = [event EXCEPT !.Tags = AppendNonce(event.Tags, nonce, diff)]
            /\ powId' = GetID(WithNonce(event, nonce, diff))
            /\ nonce' = nonce
            /\ stages' = Append(stages, "pow")
            /\ Goto("sign")
       ELSE IF nonce >= 1
            THEN /\ Fatalf("pow")
                 /\ stages' = Append(stages, "pow")
                 /\ UNCHANGED <<event, powId, nonce>>
            ELSE /\ nonce' = nonce + 1
                 /\ UNCHANGED <<event, powId, stages>>
                 /\ Goto("pow")
    /\ UNCHANGED <<flagVars, readVars, videoURL, publishedAt, clock, itemVars, powBase,
                   fileVars, printed, pubVars>>

\* utils.Pow with diff > 0: one attempt of the search, and the append when
\* the attempt wins
PowTry ==
    /\ pc = "pow"
    /\ diff > 0
    /\ nonce <= MaxNonce
    /\ IF NonceWins(event, nonce, diff)
       THEN /\ event' = [event EXCEPT !.Tags = AppendNonce(event.Tags, nonce, diff)]
            /\ powId' = GetID(WithNonce(event, nonce, diff))
            /\ nonce' = nonce
            /\ stages' = Append(stages, "pow")
            /\ Goto("sign")
       ELSE /\ nonce' = nonce + 1
            /\ UNCHANGED <<event, powId, stages>>
            /\ Goto("pow")
    /\ UNCHANGED <<flagVars, readVars, videoURL, publishedAt, clock, itemVars, powBase,
                   fileVars, printed, pubVars>>

\* utils.Pow with diff > 0: nip13.DoWork returns an error
PowFault ==
    /\ pc = "pow"
    /\ diff > 0
    /\ Fatalf("pow")
    /\ stages' = Append(stages, "pow")
    /\ UNCHANGED <<flagVars, readVars, videoURL, publishedAt, clock, itemVars, event,
                   powVars, fileVars, printed, pubVars>>

\* mutant of Sign: a signing error is logged and the run goes on
SignLogsOnly ==
    /\ pc = "sign"
    /\ \/ /\ pc' = "print" /\ exit' = exit /\ failed' = "sign"
          /\ event' = event
       \/ /\ event' = SignEvent(event, SecretKey, PublicKey)
          /\ Goto("print")
    /\ stages' = Append(stages, "sign")
    /\ UNCHANGED <<flagVars, readVars, videoURL, publishedAt, clock, itemVars, powVars,
                   fileVars, printed, pubVars>>

\* main: signer.SignEvent(ctx, event)
Sign ==
    /\ pc = "sign"
    /\ \/ /\ Fatalf("sign")
          /\ event' = event
       \/ /\ event' = SignEvent(event, SecretKey, PublicKey)
          /\ Goto("print")
    /\ stages' = Append(stages, "sign")
    /\ UNCHANGED <<flagVars, readVars, videoURL, publishedAt, clock, itemVars, powVars,
                   fileVars, printed, pubVars>>

\* mutant of PrintEvent: the event is stamped again when it is printed
PrintEventRestamps ==
    /\ pc = "print"
    /\ printed' = TRUE
    /\ event' = [event EXCEPT !.CreatedAt = clock + 1]
    /\ stages' = Append(stages, "print")
    /\ Goto("resolve")
    /\ UNCHANGED <<flagVars, readVars, videoURL, publishedAt, clock, itemVars,
                   powVars, fileVars, pubVars>>

\* main: fmt.Println("Generated Event Data:", event)
PrintEvent ==
    /\ pc = "print"
    /\ printed' = TRUE
    /\ stages' = Append(stages, "print")
    /\ Goto("resolve")
    /\ UNCHANGED <<flagVars, readVars, videoURL, publishedAt, clock, itemVars, event,
                   powVars, fileVars, pubVars>>

(***************************************************************************)
(* Relay-list resolution: loadRelays and utils.LoadRelaysFromFile.         *)
(***************************************************************************)
\* mutant of LoadRelays: every parameter is taken for a file path
LoadRelaysFromFilesOnly(param, file) ==
    IF param = RelaysJSON
    THEN IF file.ok THEN [fatal |-> FALSE, list |-> file.list]
         ELSE [fatal |-> TRUE, list |-> <<>>]
    ELSE [fatal |-> FALSE, list |-> <<>>]

\* loadRelays(relayParam): the list, or fatal when LoadRelaysFromFile calls
\* log.Fatalf
LoadRelays(param, file) ==
    IF HasWsPrefix(param) THEN [fatal |-> FALSE, list |-> <<param>>]
    ELSE IF param = RelaysJSON
         THEN IF file.ok THEN [fatal |-> FALSE, list |-> file.list]
              ELSE [fatal |-> TRUE, list |-> <<>>]
    ELSE [fatal |-> FALSE, list |-> <<>>]

\* mutant of ResolvedRelays: -r is consulted first
ResolvedRelaysShortFlagFirst(primary, secondary, file) ==
    LET first == LoadRelays(secondary, file)
    IN  IF first.fatal \/ Len(first.list) > 0 THEN first
        ELSE LoadRelays(primary, file)

\* the fallback from -relay to -r
ResolvedRelays(primary, secondary, file) ==
    LET first == LoadRelays(primary, file)
    IN  IF first.fatal \/ Len(first.list) > 0 THEN first
        ELSE LoadRelays(secondary, file)

\* what PublishEvent has done with a list entry: nothing yet
FreshEntry ==
    [ connects |-> 0, publishes |-> 0, auths |-> 0, firstErr |-> "",
      authKey |-> "", authSigned |-> "", authOK |-> FALSE, outcome |-> "",
      ctxUsed |-> 0, ctx2Used |-> 0, ops |-> <<>> ]

\* context.WithTimeout(context.Background(), 5*time.Second): connect and
\* first publish; 20*time.Second: auth submission and retried publish
CtxTimeout == 5
Ctx2Timeout == 20

\* an operation that needs d seconds, on a context of which used seconds
\* are gone, runs into the deadline of the context
Expires(used, d, timeout) == used + d > timeout

\* the entry's log with an operation on ctx written: what the operation was,
\* how long it needed by itself, whether the deadline of ctx ended it
OnCtx(entry, op, d) ==
    [entry EXCEPT
        !.ops = Append(@, [op |-> op, took |-> d,
                           expired |-> Expires(entry.ctxUsed, d, CtxTimeout)]),
        !.ctxUsed = IF Expires(entry.ctxUsed, d, CtxTimeout)
                    THEN CtxTimeout ELSE entry.ctxUsed + d]

\* the same for an operation on ctx2
OnCtx2(entry, op, d) ==
    [entry EXCEPT
        !.ops = Append(@, [op |-> op, took |-> d,
                           expired |-> Expires(entry.ctx2Used, d, Ctx2Timeout)]),
        !.ctx2Used = IF Expires(entry.ctx2Used, d, Ctx2Timeout)
                     THEN Ctx2Timeout ELSE entry.ctx2Used + d]

DeadlineExceeded == "context deadline exceeded"

\* main: "Transmit the event to relays if the relay flag is set", up to the
\* call of utils.PublishEvent
ResolveRelays ==
    /\ pc = "resolve"
    /\ stages' = Append(stages, "resolve")
    /\ IF relay = "" /\ r = ""
       THEN Goto("return") /\ UNCHANGED <<relays, rl>>
       ELSE LET res == ResolvedRelays(relay, r, relayFile)
            IN  IF res.fatal
                THEN Fatalf("resolve") /\ UNCHANGED <<relays, rl>>
                ELSE IF Len(res.list) > 0
                THEN /\ relays' = res.list
                     /\ rl' = [k \in 1..Len(res.list) |-> FreshEntry]
                     /\ Goto("connect")
                ELSE /\ UNCHANGED <<relays, rl>>
                     /\ IF prog = "nip68" THEN Fatalf("resolve") ELSE Goto("return")
    /\ UNCHANGED <<flagVars, readVars, videoURL, publishedAt, clock, itemVars, event,
                   powVars, fileVars, printed, idx, open, closers, closeLog,
                   wire>>

(***************************************************************************)
(* utils.PublishEvent: one loop iteration per list entry.                  *)
(***************************************************************************)
RECURSIVE Reverse(_)
Reverse(s) == IF s = <<>> THEN <<>> ELSE Append(Reverse(Tail(s)), Head(s))

Range(s) == { s[k] : k \in 1..Len(s) }

\* the loop moves on to the next entry, or PublishEvent reaches its end
NextRelay ==
    /\ idx' = idx + 1
    /\ Goto(IF idx + 1 > Len(relays) THEN "pubreturn" ELSE "connect")

\* the entry's log with an outcome written
Done(entry, outcome) == [entry EXCEPT !.outcome = outcome]

\* mutant of AfterPublishError: every rejection starts the auth handshake
AfterPublishErrorAlwaysAuth(err) == "auth"

\* where PublishEvent goes after relay.Publish returned err on the first
\* attempt: the auth handshake, or the next entry
AfterPublishError(err) == IF IsAuthRequired(err) THEN "auth" ELSE "next"

\* mutant of RelayConnect: a connect failure returns from PublishEvent
\* instead of continuing with the next entry
RelayConnectReturnsOnError ==
    /\ pc = "connect"
    /\ idx <= Len(relays)
    /\ \/ /\ rl' = [rl EXCEPT ![idx] =
                      Done([@ EXCEPT !.connects = @ + 1], "connectFailed")]
          /\ idx' = idx
          /\ Goto("pubreturn")
          /\ UNCHANGED <<open, closers>>
       \/ /\ rl' = [rl EXCEPT ![idx].connects = @ + 1]
          /\ open' = open \cup {idx}
          /\ closers' = Append(closers, idx)
          /\ idx' = idx
          /\ Goto("publish")
    /\ UNCHANGED <<flagVars, readVars, videoURL, publishedAt, clock, itemVars, event,
                   powVars, fileVars, printed, stages, relays, closeLog, wire>>

\* mutant of RelayConnect: relay.Close() is not deferred
RelayConnectWithoutClose ==
    /\ pc = "connect"
    /\ idx <= Len(relays)
    /\ \/ /\ rl' = [rl EXCEPT ![idx] =
                      Done([@ EXCEPT !.connects = @ + 1], "connectFailed")]
          /\ NextRelay
          /\ UNCHANGED <<open, closers>>
       \/ /\ rl' = [rl EXCEPT ![idx].connects = @ + 1]
          /\ open' = open \cup {idx}
          /\ closers' = closers
          /\ idx' = idx
          /\ Goto("publish")
    /\ UNCHANGED <<flagVars, readVars, videoURL, publishedAt, clock, itemVars, event,
                   powVars, fileVars, printed, stages, relays, closeLog, wire>>

\* nostr.RelayConnect(ctx, relayURL); on success defer relay.Close()
RelayConnect ==
    /\ pc = "connect"
    /\ idx <= Len(relays)
    /\ \E d \in latencies :
        LET timed == OnCtx(rl[idx], "connect", d)
        IN  \/ /\ rl' = [rl EXCEPT ![idx] =
                          Done([timed EXCEPT !.connects = @ + 1], "connectFailed")]
               /\ NextRelay
               /\ UNCHANGED <<open, closers>>
            \/ /\ ~Expires(rl[idx].ctxUsed, d, CtxTimeout)
               /\ rl' = [rl EXCEPT ![idx] = [timed EXCEPT !.connects = @ + 1]]
               /\ open' = open \cup {idx}
               /\ closers' = Append(closers, idx)
               /\ idx' = idx
               /\ Goto("publish")
    /\ UNCHANGED <<flagVars, readVars, videoURL, publishedAt, clock, itemVars, event,
                   powVars, fileVars, printed, stages, relays, closeLog, wire>>

\* mutant of RelayPublish: a rejected first attempt is fatal
RelayPublishFatalOnError ==
    /\ pc = "publish"
    /\ wire' = Append(wire, [entry |-> idx, ev |-> event])
    /\ \/ /\ rl' = [rl EXCEPT ![idx] =
                      Done([@ EXCEPT !.publishes = @ + 1], "published")]
          /\ NextRelay
       \/ \E err \in PublishErrors :
            /\ rl' = [rl EXCEPT ![idx] =
                        Done([@ EXCEPT !.publishes = @ + 1,
                                       !.firstErr = err], "failed")]
            /\ idx' = idx
            /\ Fatalf("publish")
    /\ UNCHANGED <<flagVars, readVars, videoURL, publishedAt, clock, itemVars, event,
                   powVars, fileVars, printed, stages, relays, open, closers,
                   closeLog>>

\* a publisher that sends the event and goes on to the next relay without
\* waiting for the answer of this one
RelayPublishWithoutWaiting ==
    /\ pc = "publish"
    /\ wire' = Append(wire, [entry |-> idx, ev |-> event])
    /\ rl' = [rl EXCEPT ![idx].publishes = @ + 1]
    /\ NextRelay
    /\ UNCHANGED <<flagVars, readVars, videoURL, publishedAt, clock, itemVars, event,
                   powVars, fileVars, printed, stages, relays, open, closers,
                   closeLog>>

\* relay.Publish(ctx, *event), first attempt
RelayPublish ==
    /\ pc = "publish"
    /\ wire' = Append(wire, [entry |-> idx, ev |-> event])
    /\ \E d \in latencies :
        LET timed == OnCtx(rl[idx], "publish", d)
            late == Expires(rl[idx].ctxUsed, d, CtxTimeout)
        IN  \/ /\ ~late
               /\ rl' = [rl EXCEPT ![idx] =
                          Done([timed EXCEPT !.publishes = @ + 1], "published")]
               /\ NextRelay
            \/ \E err \in PublishErrors :
                 /\ late => err = DeadlineExceeded
                 /\ IF AfterPublishError(err) = "auth"
                    THEN /\ rl' = [rl EXCEPT ![idx] =
                                     [timed EXCEPT !.publishes = @ + 1,
                                                   !.firstErr = err]]
                         /\ idx' = idx
                         /\ Goto("auth")
                    ELSE /\ rl' = [rl EXCEPT ![idx] =
                                     Done([timed EXCEPT !.publishes = @ + 1,
                                                        !.firstErr = err], "failed")]
                         /\ NextRelay
    /\ UNCHANGED <<flagVars, readVars, videoURL, publishedAt, clock, itemVars, event,
                   powVars, fileVars, printed, stages, relays, open, closers,
                   closeLog>>

\* mutant of RelayAuth: the publish is retried after a failed submission too
RelayAuthRetriesAnyway ==
    /\ pc = "auth"
    /\ \E ok \in BOOLEAN :
          rl' = [rl EXCEPT ![idx].auths = @ + 1, ![idx].authKey = SecretKey,
                           ![idx].authSigned = "authEvent", ![idx].authOK = ok]
    /\ idx' = idx
    /\ Goto("republish")
    /\ UNCHANGED <<flagVars, readVars, videoURL, publishedAt, clock, itemVars, event,
                   powVars, fileVars, printed, stages, relays, open, closers,
                   closeLog, wire>>

\* relay.Auth(ctx2, sign) with sign = signer.SignEvent(ctx2, authEvent)
\* a handshake whose callback signs the event being published, stamped anew
RelayAuthSignsPublishedEvent ==
    /\ pc = "auth"
    /\ \E d \in latencies :
        LET timed == OnCtx2(rl[idx], "auth", d)
        IN  \/ /\ rl' = [rl EXCEPT ![idx] =
                          Done([timed EXCEPT !.auths = @ + 1,
                                             !.authKey = SecretKey,
                                             !.authSigned = "event"], "failed")]
               /\ NextRelay
            \/ /\ ~Expires(rl[idx].ctx2Used, d, Ctx2Timeout)
               /\ rl' = [rl EXCEPT ![idx] =
                          [timed EXCEPT !.auths = @ + 1, !.authKey = SecretKey,
                                        !.authSigned = "event",
                                        !.authOK = TRUE]]
               /\ idx' = idx
               /\ Goto("republish")
    /\ event' = SignEvent([event EXCEPT !.CreatedAt = clock + 1], SecretKey, PublicKey)
    /\ UNCHANGED <<flagVars, readVars, videoURL, publishedAt, clock, itemVars,
                   powVars, fileVars, printed, stages, relays, open, closers,
                   closeLog, wire>>

\* relay.Auth(ctx2, sign): the callback signs the authEvent it is handed
RelayAuth ==
    /\ pc = "auth"
    /\ \E d \in latencies :
        LET timed == OnCtx2(rl[idx], "auth", d)
        IN  \/ /\ rl' = [rl EXCEPT ![idx] =
                          Done([timed EXCEPT !.auths = @ + 1,
                                             !.authKey = SecretKey,
                                             !.authSigned = "authEvent"], "failed")]
               /\ NextRelay
            \/ /\ ~Expires(rl[idx].ctx2Used, d, Ctx2Timeout)
               /\ rl' = [rl EXCEPT ![idx] =
                          [timed EXCEPT !.auths = @ + 1, !.authKey = SecretKey,
                                        !.authSigned = "authEvent",
                                        !.authOK = TRUE]]
               /\ idx' = idx
               /\ Goto("republish")
    /\ UNCHANGED <<flagVars, readVars, videoURL, publishedAt, clock, itemVars, event,
                   powVars, fileVars, printed, stages, relays, open, closers,
                   closeLog, wire>>

\* mutant of RelayRepublish: a failed retry starts another auth handshake
RelayRepublishRetriesAgain ==
    /\ pc = "republish"
    /\ wire' = Append(wire, [entry |-> idx, ev |-> event])
    /\ \/ /\ rl' = [rl EXCEPT ![idx] = Done([@ EXCEPT !.publishes = @ + 1], "published")]
          /\ NextRelay
       \/ /\ rl' = [rl EXCEPT ![idx].publishes = @ + 1]
          /\ idx' = idx
          /\ Goto("auth")
    /\ UNCHANGED <<flagVars, readVars, videoURL, publishedAt, clock, itemVars, event,
                   powVars, fileVars, printed, stages, relays, open, closers,
                   closeLog>>

\* relay.Publish(ctx2, *event), the retry after the auth handshake
RelayRepublish ==
    /\ pc = "republish"
    /\ wire' = Append(wire, [entry |-> idx, ev |-> event])
    /\ \E d \in latencies, outcome \in {"published", "failed"} :
          /\ Expires(rl[idx].ctx2Used, d, Ctx2Timeout) => outcome = "failed"
          /\ rl' = [rl EXCEPT ![idx] =
                     Done([OnCtx2(rl[idx], "republish", d) EXCEPT !.publishes = @ + 1],
                          outcome)]
    /\ NextRelay
    /\ UNCHANGED <<flagVars, readVars, videoURL, publishedAt, clock, itemVars, event,
                   powVars, fileVars, printed, stages, relays, open, closers,
                   closeLog>>

\* a return that closes the connections first opened first
PublishReturnClosesInOrderOfOpening ==
    /\ pc = "pubreturn"
    /\ closeLog' = closers
    /\ open' = open \ Range(closers)
    /\ closers' = <<>>
    /\ stages' = Append(stages, "publish")
    /\ Goto("return")
    /\ UNCHANGED <<flagVars, readVars, videoURL, publishedAt, clock, itemVars, event,
                   powVars, fileVars, printed, relays, idx, rl, wire>>

\* PublishEvent returns: the deferred relay.Close calls run, last first
PublishReturn ==
    /\ pc = "pubreturn"
    /\ closeLog' = Reverse(closers)
    /\ open' = open \ Range(closers)
    /\ closers' = <<>>
    /\ stages' = Append(stages, "publish")
    /\ Goto("return")
    /\ UNCHANGED <<flagVars, readVars, videoURL, publishedAt, clock, itemVars, event,
                   powVars, fileVars, printed, relays, idx, rl, wire>>

\* main returns: its deferred os.Remove calls run, the process exits with 0
MainReturn ==
    /\ pc = "return"
    /\ tmpFiles' = tmpFiles \ Range(deferred)
    /\ deferred' = <<>>
    /\ pc' = "done"
    /\ exit' = "ok"
    /\ failed' = failed
    /\ UNCHANGED <<flagVars, readVars, videoURL, publishedAt, clock, itemVars, event,
                   powVars, printed, stages, pubVars>>

(***************************************************************************)
(* Specifications.                                                         *)
(***************************************************************************)
WorkingRelayFile == [ok |-> TRUE, list |-> <<RelayA, RelayB>>]

\* what relays.json may hold
RelayFiles ==
    { WorkingRelayFile, [ok |-> TRUE, list |-> <<>>], [ok |-> FALSE, list |-> <<>>] }

\* one invocation of cmd/nip71 or cmd/nip68, from the parsed flags on
Init ==
    /\ prog \in {"nip71", "nip68"}
    /\ IF prog = "nip71"
       THEN /\ videoURL \in {"", UserURL}
            /\ videoFile \in {"", "v.mp4"}
            /\ imageURLs = <<>>
            /\ imageFiles = <<>>
       ELSE /\ videoURL = ""
            /\ videoFile = ""
            /\ imageURLs \in { <<>>, <<UserURL>> }
            /\ imageFiles \in { <<>>, <<"a.jpg">> }
    /\ isLegacy = FALSE
    /\ title = ""
    /\ description = ""
    /\ publishedAt \in {"", "1600", "yesterday"}
    /\ descriptor = ""
    /\ diff \in {0, MaxDiff}
    /\ relay \in {"", RelayA, RelaysJSON, NoSuchFile}
    /\ r \in {"", RelayB}
    /\ relayFile \in RelayFiles
    /\ latencies = {0}
    /\ (relay /= RelaysJSON => relayFile = WorkingRelayFile)
    /\ media = [width |-> 2, height |-> 1]
    /\ RunStart

Pipeline ==
    \/ ParseAndInitParams
    \/ RequireInput
    \/ UploadFile
    \/ DownloadVideo
    \/ ValidateInput
    \/ ExtractMediaInfo
    \/ AddImageIMetaTag
    \/ CreateEvent
    \/ PowSkip
    \/ PowTry
    \/ PowFault
    \/ Sign
    \/ PrintEvent
    \/ ResolveRelays

Publisher ==
    \/ RelayConnect
    \/ RelayPublish
    \/ RelayAuth
    \/ RelayRepublish
    \/ PublishReturn

Next == Pipeline \/ Publisher \/ MainReturn

Spec == Init /\ [][Next]_vars

\* every list of at most MaxRelays relay URLs: duplicates included
RelayLists ==
    UNION { [1..n -> {RelayA, RelayB}] : n \in 1..MaxRelays }

\* the run of cmd/nip71 -url UserURL -published_at 1600 -diff 0 -relay
\* relays.json at the moment main calls utils.PublishEvent
InitPublish ==
    /\ prog = "nip71"
    /\ videoURL = UserURL
    /\ videoFile = ""
    /\ imageURLs = <<>>
    /\ imageFiles = <<>>
    /\ isLegacy = FALSE
    /\ title = ""
    /\ description = ""
    /\ publishedAt = "1600"
    /\ descriptor = ""
    /\ diff = 0
    /\ relay = RelaysJSON
    /\ r = ""
    /\ relays \in RelayLists
    /\ relayFile = [ok |-> TRUE, list |-> relays]
    /\ latencies = {0}
    /\ media = [width |-> 2, height |-> 1]
    /\ clock = StartTime
    /\ pc = "connect"
    /\ item = 1
    /\ videoPath = TempPath(1)
    /\ info = MediaInfo(videoPath, media, "video")
    /\ imetaTags = <<>>
    /\ imageURL = ""
    /\ powBase = Nip71Event(info, title, publishedAt, videoURL, description,
                            descriptor, isLegacy, PublicKey, StartTime)
    /\ event = SignEvent(powBase, SecretKey, PublicKey)
    /\ nonce = 0
    /\ powId = NoID
    /\ tmpFiles = {TempPath(1)}
    /\ deferred = <<TempPath(1)>>
    /\ printed = TRUE
    /\ failed = ""
    /\ stages = <<"parse", "download", "validate", "fingerprint", "build",
                  "pow", "sign", "print", "resolve">>
    /\ idx = 1
    /\ rl = [k \in 1..Len(relays) |-> FreshEntry]
    /\ open = {}
    /\ closers = <<>>
    /\ closeLog = <<>>
    /\ wire = <<>>
    /\ args = [publishedAt |-> publishedAt, videoURL |-> videoURL]
    /\ startedAt = 0
    /\ uploadInfo = NoUploadInfo
    /\ exit = "running"

NextPublish == Publisher \/ MainReturn

SpecPublish == InitPublish /\ [][NextPublish]_vars

\* ---- the publisher on a slow network ----
\* relays that answer at once, after 3 s, after 18 s, or after 21 s
SlowLatencies == {0, 3, 18, 21}

\* one relay, or two different ones
SlowRelayLists == { <<RelayA>>, <<RelayA, RelayB>> }

InitDeadline ==
    /\ prog = "nip71"
    /\ videoURL = UserURL
    /\ videoFile = ""
    /\ imageURLs = <<>>
    /\ imageFiles = <<>>
    /\ isLegacy = FALSE
    /\ title = ""
    /\ description = ""
    /\ publishedAt = "1600"
    /\ descriptor = ""
    /\ diff = 0
    /\ relay = RelaysJSON
    /\ r = ""
    /\ relays \in SlowRelayLists
    /\ relayFile = [ok |-> TRUE, list |-> relays]
    /\ latencies = SlowLatencies
    /\ media = [width |-> 2, height |-> 1]
    /\ clock = StartTime
    /\ pc = "connect"
    /\ item = 1
    /\ videoPath = TempPath(1)
    /\ info = MediaInfo(videoPath, media, "video")
    /\ imetaTags = <<>>
    /\ imageURL = ""
    /\ powBase = Nip71Event(info, title, publishedAt, videoURL, description,
                            descriptor, isLegacy, PublicKey, StartTime)
    /\ event = SignEvent(powBase, SecretKey, PublicKey)
    /\ nonce = 0
    /\ powId = NoID
    /\ tmpFiles = {TempPath(1)}
    /\ deferred = <<TempPath(1)>>
    /\ printed = TRUE
    /\ failed = ""
    /\ stages = <<"parse", "download", "validate", "fingerprint", "build",
                  "pow", "sign", "print", "resolve">>
    /\ idx = 1
    /\ rl = [k \in 1..Len(relays) |-> FreshEntry]
    /\ open = {}
    /\ closers = <<>>
    /\ closeLog = <<>>
    /\ wire = <<>>
    /\ args = [publishedAt |-> publishedAt, videoURL |-> videoURL]
    /\ startedAt = 0
    /\ uploadInfo = NoUploadInfo
    /\ exit = "running"

NextDeadline == Publisher \/ MainReturn

SpecDeadline == InitDeadline /\ [][NextDeadline]_vars

\* the runs of cmd/nip71 -url UserURL at the moment main calls
\* createNip71Event, over the fingerprints and the flags the builder reads
InitBuild ==
    /\ prog = "nip71"
    /\ videoURL = UserURL
    /\ videoFile = ""
    /\ imageURLs = <<>>
    /\ imageFiles = <<>>
    /\ isLegacy \in BOOLEAN
    /\ title \in {"", "My Video"}
    /\ description = ""
    /\ publishedAt = "1600"
    /\ descriptor \in {"", "myvideo"}
    /\ diff \in (0 - 1)..MaxDiff
    /\ relay = ""
    /\ r = ""
    /\ relayFile = WorkingRelayFile
    /\ latencies = {0}
    /\ media \in [width : 1..MaxDim, height : 1..MaxDim]
    /\ clock = StartTime
    /\ pc = "build"
    /\ item = 1
    /\ videoPath = TempPath(1)
    /\ info = MediaInfo(videoPath, media, "video")
    /\ imetaTags = <<>>
    /\ imageURL = ""
    /\ event = NoEvent
    /\ nonce = 0
    /\ powBase = NoEvent
    /\ powId = NoID
    /\ tmpFiles = {TempPath(1)}
    /\ deferred = <<TempPath(1)>>
    /\ printed = FALSE
    /\ failed = ""
    /\ stages = <<"parse", "download", "validate", "fingerprint">>
    /\ relays = <<>>
    /\ idx = 1
    /\ rl = <<>>
    /\ open = {}
    /\ closers = <<>>
    /\ closeLog = <<>>
    /\ wire = <<>>
    /\ args = [publishedAt |-> publishedAt, videoURL |-> videoURL]
    /\ startedAt = 0
    /\ uploadInfo = NoUploadInfo
    /\ exit = "running"

NextBuild == CreateEvent \/ PowSkip \/ PowTry \/ PowFault

SpecBuild == InitBuild /\ [][NextBuild]_vars

\* what may be given with -relay and with -r
RelayParams == { "", RelayA, RelayB, RelaysJSON, NoSuchFile }

\* what relays.json may hold: a JSON array of at most two strings, or
\* something that does not decode to one
ResolveFiles ==
    { [ok |-> TRUE, list |-> l] : l \in { <<>> } \cup { m \in RelayLists : Len(m) <= 2 } }
        \cup { [ok |-> FALSE, list |-> <<>>] }

\* the runs of cmd/nip71 and cmd/nip68 -url UserURL -published_at 1600
\* -diff 0 at the moment main has printed the signed event, over the relay
\* flags and the contents of relays.json
InitResolve ==
    /\ prog \in {"nip71", "nip68"}
    /\ videoURL = (IF prog = "nip71" THEN UserURL ELSE "")
    /\ videoFile = ""
    /\ imageURLs = (IF prog = "nip71" THEN <<>> ELSE <<UserURL>>)
    /\ imageFiles = <<>>
    /\ isLegacy = FALSE
    /\ title = ""
    /\ description = ""
    /\ publishedAt = "1600"
    /\ descriptor = ""
    /\ diff = 0
    /\ relay \in RelayParams
    /\ r \in RelayParams
    /\ relayFile \in ResolveFiles
    /\ latencies = {0}
    /\ media = [width |-> 2, height |-> 1]
    /\ clock = StartTime
    /\ pc = "resolve"
    /\ item = 1
    /\ videoPath = TempPath(1)
    /\ info = (IF prog = "nip71" THEN MediaInfo(videoPath, media, "video") ELSE NoInfo)
    /\ imetaTags = (IF prog = "nip71" THEN <<>>
                    ELSE << ImageIMeta(UserURL, MediaInfo(videoPath, media, "image")) >>)
    /\ imageURL = (IF prog = "nip71" THEN "" ELSE UserURL)
    /\ powBase = (IF prog = "nip71"
                  THEN Nip71Event(info, title, publishedAt, videoURL, description,
                                  descriptor, isLegacy, PublicKey, StartTime)
                  ELSE Nip68Event(imetaTags, title, publishedAt, description,
                                  PublicKey, StartTime))
    /\ event = SignEvent(powBase, SecretKey, PublicKey)
    /\ nonce = 0
    /\ powId = NoID
    /\ tmpFiles = {TempPath(1)}
    /\ deferred = <<TempPath(1)>>
    /\ printed = TRUE
    /\ failed = ""
    /\ stages = (IF prog = "nip71"
                 THEN <<"parse", "download", "validate", "fingerprint", "build",
                        "pow", "sign", "print">>
                 ELSE <<"parse", "download", "fingerprint", "build", "pow",
                        "sign", "print">>)
    /\ relays = <<>>
    /\ idx = 1
    /\ rl = <<>>
    /\ open = {}
    /\ closers = <<>>
    /\ closeLog = <<>>
    /\ wire = <<>>
    /\ args = [publishedAt |-> publishedAt, videoURL |-> videoURL]
    /\ startedAt = 0
    /\ uploadInfo = NoUploadInfo
    /\ exit = "running"

NextResolve == ResolveRelays \/ Publisher \/ MainReturn

SpecResolve == InitResolve /\ [][NextResolve]_vars

\* the largest number of -file flags and of -url flags of a gallery
MaxItems == 2

\* every list of at most MaxItems elements of S
ListsOf(S) == UNION { [1..n -> S] : n \in 0..MaxItems }

\* the runs of cmd/nip68 -diff 0 without relay flags, over the lists of
\* -file and -url flags, from the parsed flags to the built event
InitGallery ==
    /\ prog = "nip68"
    /\ videoURL = ""
    /\ videoFile = ""
    /\ imageURLs \in ListsOf({UserURL, OtherURL})
    /\ imageFiles \in ListsOf({"a.jpg", "b.jpg"})
    /\ isLegacy = FALSE
    /\ title = ""
    /\ description = ""
    /\ publishedAt \in {"", "1600"}
    /\ descriptor = ""
    /\ diff = 0
    /\ relay = ""
    /\ r = ""
    /\ relayFile = WorkingRelayFile
    /\ latencies = {0}
    /\ media = [width |-> 2, height |-> 1]
    /\ RunStart

NextGallery ==
    \/ ParseAndInitParams
    \/ RequireInput
    \/ UploadFile
    \/ DownloadVideo
    \/ AddImageIMetaTag
    \/ CreateEvent
    \/ PowSkip

SpecGallery == InitGallery /\ [][NextGallery]_vars

\* the builder and Pow when nip13.DoWork meets no internal fault
NextPow == CreateEvent \/ PowSkip \/ PowTry

\* Pow is a synchronous call on the only thread of main and the search loop
\* of DoWork has no blocking operation: an attempt that can be made is made
SpecPow == InitBuild /\ [][NextPow]_vars /\ WF_vars(PowTry)

(***************************************************************************)
(* Properties of utils.PublishEvent.                                       *)
(***************************************************************************)
Entries == 1..Len(rl)

\* PublishEvent is through with entry k
Handled(k) == rl[k].outcome /= ""

\* PublishEvent has returned
Published == pc \in {"return", "done"} /\ Len(relays) > 0 /\ exit /= "fatal"

\* the publish attempts made for entry k, as seen on the wire
Attempts(k) == Cardinality({ n \in 1..Len(wire) : wire[n].entry = k })

\* C1 as stated: after an auth-required rejection of the first attempt there
\* is always exactly one auth submission and exactly one further publish
\* attempt, and no entry ever sees more than one auth submission or more
\* than two publish attempts.
C1_RetryAlways ==
    \A k \in Entries :
        /\ rl[k].auths <= 1
        /\ rl[k].publishes <= 2
        /\ (Handled(k) /\ IsAuthRequired(rl[k].firstErr))
              => (rl[k].auths = 1 /\ rl[k].publishes = 2)

\* C1, amended: after an auth-required rejection of the first attempt there
\* is exactly one auth submission, signed through the signer of the event;
\* exactly one further publish attempt follows when that submission
\* succeeds and none when it fails; the retry comes after the auth
\* submission; and no entry ever sees more than one auth submission or more
\* than two publish attempts.
C1_AuthThenOneRetry ==
    \A k \in Entries :
        /\ rl[k].auths <= 1
        /\ rl[k].publishes <= 2
        /\ Attempts(k) = rl[k].publishes
        /\ (Handled(k) /\ IsAuthRequired(rl[k].firstErr))
              => /\ rl[k].auths = 1
                 /\ rl[k].authKey = event.Sig[2]
                 /\ rl[k].publishes = (IF rl[k].authOK THEN 2 ELSE 1)
        /\ rl[k].publishes = 2 => (rl[k].auths = 1 /\ rl[k].authOK)
        /\ (k = idx /\ pc = "republish")
              => (rl[k].auths = 1 /\ rl[k].authOK /\ rl[k].publishes = 1)

\* C1 witness: an entry whose first attempt was rejected with auth-required,
\* that authenticated and was published to on the retry
C1_Witness ==
    \E k \in Entries :
        /\ IsAuthRequired(rl[k].firstErr)
        /\ rl[k].outcome = "published"
        /\ rl[k].auths = 1
        /\ rl[k].publishes = 2

\* C2: every entry of the list, duplicates included, gets exactly one
\* connect attempt whatever happened to the entries before it; every entry
\* that connected is published to; and no failure ends the process.
C2_EveryRelayIsTried ==
    /\ Len(rl) = Len(relays)
    /\ exit /= "fatal"
    /\ \A k \in Entries :
          /\ rl[k].connects <= 1
          /\ (k < idx) => (rl[k].connects = 1 /\ Handled(k))
          /\ Handled(k) => rl[k].outcome \in {"connectFailed", "published", "failed"}
          /\ (Handled(k) /\ rl[k].outcome /= "connectFailed") => rl[k].publishes >= 1
    /\ Published => \A k \in Entries : rl[k].connects = 1 /\ Handled(k)

\* C2 witness: the same relay listed twice; the first entry fails to connect,
\* an entry in between fails after its auth submission, the last is
\* published to
C2_Witness ==
    /\ Published
    /\ \E j, k, m \in Entries :
          /\ j < k /\ k < m
          /\ relays[j] = relays[m]
          /\ rl[j].outcome = "connectFailed"
          /\ rl[k].outcome = "failed" /\ rl[k].auths = 1
          /\ rl[m].outcome = "published"

\* C3: an entry whose first publish attempt is rejected with an error that
\* does not start with the auth-required prefix sees exactly one publish
\* attempt and no auth submission, is failed, and the loop has moved on.
C3_NoRetryWithoutAuthRequired ==
    \A k \in Entries :
        (rl[k].firstErr /= "" /\ ~IsAuthRequired(rl[k].firstErr))
            => /\ rl[k].publishes = 1
               /\ rl[k].auths = 0
               /\ Attempts(k) = 1
               /\ rl[k].outcome = "failed"
               /\ idx > k

\* C3 witness: a rejected entry that was not retried, followed by an entry
\* that was handled
C3_Witness ==
    \E k \in Entries :
        /\ rl[k].firstErr = "msg: blocked: spam"
        /\ rl[k].publishes = 1
        /\ k + 1 \in Entries
        /\ rl[k + 1].connects = 1

(***************************************************************************)
(* Properties of the pipeline: build, proof of work, sign, publish.        *)
(***************************************************************************)
\* signer.SignEvent has returned without an error
Signed == event.Sig /= NoSig

\* an event that carries the identifier of its fields and the signature of
\* that identifier
WellSigned(ev) ==
    /\ ev.ID /= NoID
    /\ ev.ID = <<Digest(<<0, ev.PubKey, ev.CreatedAt, ev.Kind, ev.Tags, ev.Content>>)>>
    /\ ev.Sig = <<"sig", SecretKey, ev.ID>>

\* C4: every event handed to relay.Publish is signed, carries the identifier
\* of its current pubKey, createdAt, kind, tags and content, and the
\* signature of that identifier; the event in main is in that state from
\* signing on; a failed signing step leads to no publish attempt.
C4_OnlySignedEventsArePublished ==
    /\ \A n \in 1..Len(wire) : WellSigned(wire[n].ev)
    /\ pc \in {"connect", "publish", "auth", "republish", "pubreturn"} => WellSigned(event)
    /\ ~Signed => (wire = <<>> /\ rl = <<>>)
    /\ failed = "sign" => (~Signed /\ wire = <<>> /\ rl = <<>> /\ exit = "fatal")

\* C4 witness: an event with a nonce tag was published on a retry
C4_Witness ==
    /\ Len(wire) >= 2
    /\ diff > 0
    /\ wire[Len(wire)].ev.Tags[Len(event.Tags)][1] = "nonce"
    /\ \E k \in Entries : rl[k].publishes = 2 /\ rl[k].outcome = "published"

\* C5: with a positive target difficulty the identifier of the signed (and
\* printed) event has at least that many leading zero bits and is the
\* identifier the proof-of-work search accepted; pubKey, createdAt, kind,
\* content and the tags before the nonce tag are those the search started
\* with.
C5_SignedIdMeetsDifficulty ==
    (diff > 0 /\ Signed)
        => /\ IdBits - BitLen(event.ID[1]) >= diff
           /\ event.ID = powId
           /\ event.PubKey = powBase.PubKey
           /\ event.CreatedAt = powBase.CreatedAt
           /\ event.Kind = powBase.Kind
           /\ event.Content = powBase.Content
           /\ SubSeq(event.Tags, 1, Len(powBase.Tags)) = powBase.Tags

\* C5 witness: a printed event whose search needed several attempts to
\* reach the largest target
C5_Witness ==
    /\ printed
    /\ Signed
    /\ diff = MaxDiff
    /\ nonce > 0

\* C9 as stated: once the event is built and signed nothing ends the run
\* with a fatal error.
C9_NeverFatalAfterSigning == Signed => exit /= "fatal"

\* C9, amended: once the event is built and signed the only fatal errors
\* are those of relay-list resolution (a relay-list file that cannot be
\* decoded and, in the image tool, a relay flag that resolves to no relay);
\* they happen before any relay is dialed.  From the call of PublishEvent on
\* nothing is fatal, and a run whose publication failed on every relay ends
\* successfully.
C9_OnlyRelayResolutionIsFatalAfterSigning ==
    /\ (Signed /\ exit = "fatal")
          => /\ failed = "resolve"
             /\ relays = <<>>
             /\ wire = <<>>
             /\ \/ (relay = RelaysJSON /\ ~relayFile.ok)
                \/ (r = RelaysJSON /\ ~relayFile.ok)
                \/ prog = "nip68"
    /\ Len(relays) > 0 => exit /= "fatal"
    /\ (Len(relays) > 0 /\ pc = "done") => exit = "ok"

\* C9 witness: a run that ended successfully although no relay of the list
\* was published to
C9_Witness ==
    /\ pc = "done"
    /\ exit = "ok"
    /\ Len(relays) = 2
    /\ rl[1].outcome = "connectFailed"
    /\ rl[2].outcome = "failed"

\* the stages of main before publication
EarlyStages ==
    {"input", "upload", "download", "validate", "fingerprint", "build", "pow", "sign"}

\* C10: an error of a stage before publication ends the run at once: the
\* process exits fatally, the failing stage is the last that ran, nothing is
\* printed and no relay is dialed.
C10_EarlyErrorsAreFatal ==
    (failed \in EarlyStages)
        => /\ exit = "fatal"
           /\ pc = "done"
           /\ (failed /= "input" => stages[Len(stages)] = failed)
           /\ ~printed
           /\ ~Signed
           /\ relays = <<>>
           /\ rl = <<>>
           /\ wire = <<>>

\* C10 witness: the validation of a video run with a relay flag failed
C10_Witness ==
    /\ failed = "validate"
    /\ relay = RelayA
    /\ exit = "fatal"

(***************************************************************************)
(* Properties of the builder and of Pow.                                   *)
(***************************************************************************)
\* createNip71Event has built the event
Built == pc \in {"pow", "sign"}

\* C6: Pow with a target of zero or less returns nil and leaves the event
\* as it was; Pow that returns nil for a positive target has appended
\* exactly one tag, a nonce tag naming the target, after the tags the event
\* had, and changed nothing else.
C6_PowFrame ==
    /\ (pc = "sign" /\ diff <= 0) => event = powBase
    /\ (pc = "sign" /\ diff > 0)
          => /\ Len(event.Tags) = Len(powBase.Tags) + 1
             /\ SubSeq(event.Tags, 1, Len(powBase.Tags)) = powBase.Tags
             /\ event.Tags[Len(event.Tags)] = <<"nonce", ToString(nonce), ToString(diff)>>
             /\ [event EXCEPT !.Tags = powBase.Tags] = powBase
    /\ (pc = "pow") => event = powBase

\* C6 witness: Pow returned nil for a negative target
C6_Witness == pc = "sign" /\ diff < 0 /\ Len(event.Tags) >= 4

\* C7: the kind is 22 (34236 in legacy mode) exactly when height > width
\* and 21 (34235 in legacy mode) otherwise, equal sides included, and the
\* alt tag names the same orientation.
C7_KindByOrientation ==
    Built =>
        LET vertical == media.height > media.width
        IN  /\ event.Kind = (IF isLegacy
                             THEN (IF vertical THEN 34236 ELSE 34235)
                             ELSE (IF vertical THEN 22 ELSE 21))
            /\ event.Tags[1] = <<"alt", IF vertical THEN "Vertical Video"
                                         ELSE "Horizontal Video">>
            /\ event.Tags[4][4] = "alt " \o event.Tags[1][2]

\* C7 witness: a square video built in current mode
C7_Witness ==
    /\ Built
    /\ ~isLegacy
    /\ media.width = media.height
    /\ event.Kind = 21

\* the values of the d tags of an event
DValues(ev) == { ev.Tags[k][2] : k \in { j \in 1..Len(ev.Tags) : ev.Tags[j][1] = "d" } }

DCount(ev) == Cardinality({ j \in 1..Len(ev.Tags) : ev.Tags[j][1] = "d" })

TagValues(ev, key) ==
    { ev.Tags[k][2] : k \in { j \in 1..Len(ev.Tags) : ev.Tags[j][1] = key } }

\* main has built the event
EventBuilt == event /= NoEvent

\* UploadFile has returned a descriptor to main
Uploaded == uploadInfo /= NoUploadInfo

\* C11: when -published_at is not given, the event of a run without upload
\* carries as published_at the time parseAndInitParams read at start-up, and
\* the event of a run whose (last) upload reported a numeric uploaded time
\* carries that time cut to whole seconds, not the wall-clock time.
C11_DefaultPublishTime ==
    (EventBuilt /\ args.publishedAt = "")
        => /\ startedAt >= StartTime
           /\ startedAt <= event.CreatedAt
           /\ ~Uploaded
                 => TagValues(event, "published_at") = { ToString(startedAt) }
           /\ (Uploaded /\ uploadInfo.uploaded.numeric)
                 => TagValues(event, "published_at")
                        = { ToString(uploadInfo.uploaded.tenths \div 10) }

\* C11 witness: a signed video event of a run without -published_at whose
\* upload reported a time with a fraction, started after the clock ticked
C11_Witness ==
    /\ prog = "nip71"
    /\ Signed
    /\ args.publishedAt = ""
    /\ startedAt = StartTime + 1
    /\ uploadInfo.uploaded.numeric
    /\ uploadInfo.uploaded.tenths % 10 /= 0
    /\ <<"published_at", ToString(UploadedTenths \div 10)>> \in Range(event.Tags)

\* C12: an event built by a run that was given -published_at carries that
\* value as its published_at tag, whether or not a file was uploaded.
C12_ExplicitPublishTimeIsKept ==
    (EventBuilt /\ args.publishedAt /= "")
        => TagValues(event, "published_at") = { args.publishedAt }

\* C13: a video event built by a run without -title carries the video's
\* resolved URL as its title tag, so its title is not empty when the URL is
\* not.
C13_VideoTitleDefaultsToURL ==
    (prog = "nip71" /\ EventBuilt /\ title = "")
        => /\ TagValues(event, "title") = { videoURL }
           /\ videoURL /= "" => "" \notin TagValues(event, "title")

\* C14: a picture event built by a run without -title has kind 20 and
\* carries the name of one of the image files as its title tag.
C14_ImageTitleDefaultsToFilename ==
    (prog = "nip68" /\ EventBuilt /\ title = "")
        => /\ event.Kind = 20
           /\ \E v \in TagValues(event, "title") : v /= ""
           /\ Len(imageFiles) > 0 => TagValues(event, "title") \subseteq Range(imageFiles)

\* the url entries of the imeta tags of an event
IMetaURLEntries(ev) ==
    { ev.Tags[k][2] : k \in { j \in 1..Len(ev.Tags) : ev.Tags[j][1] = "imeta" } }

\* C15: in both programs an event is signed, and handed to a relay, only if
\* the media URLs it carries are well-formed absolute URIs and its
\* published_at value parses as a base-10 integer.
C15_InvalidInputIsNeverSigned ==
    (Signed \/ wire /= <<>>)
        => /\ \A v \in TagValues(event, "published_at") : ParsesAsInt(v)
           /\ IMetaURLEntries(event) \subseteq { "url " \o u : u \in WellFormedURIs }

(***************************************************************************)
(* Properties of the relay-list resolution.                                *)
(***************************************************************************)
\* main is past the resolution of the relay flags
Resolved == "resolve" \in Range(stages)

\* list entries PublishEvent has dialed
Dialed == { k \in 1..Len(rl) : rl[k].connects > 0 }

\* C16: the list handed to PublishEvent is the list of -relay whenever that
\* list is not empty, whatever -r holds; it is the list of -r only when the
\* list of -relay is empty; with neither flag set nothing is dialed.
C16_ShortFlagIsFallbackOnly ==
    LET primary == LoadRelays(relay, relayFile)
        secondary == LoadRelays(r, relayFile)
    IN  /\ Len(rl) = Len(relays)
        /\ ~Resolved => relays = <<>>
        /\ Resolved =>
              /\ primary.list /= <<>> => relays = primary.list
              /\ relays /= primary.list
                    => (primary.list = <<>> /\ relays = secondary.list)
              /\ (primary.list = <<>> /\ ~primary.fatal) => relays = secondary.list
              /\ (relay = "" /\ r = "")
                    => (relays = <<>> /\ Dialed = {} /\ wire = <<>>)

\* C16 witness: both flags name a relay and the relay of -relay was dialed
C16_Witness ==
    /\ relay = RelayA
    /\ r = RelayB
    /\ relays = <<RelayA>>
    /\ Dialed = {1}
    /\ pc = "done"

\* C17: a parameter that starts with ws:// or wss:// gives the list of that
\* one parameter, whatever the file system holds; a parameter that names an
\* existing file gives the strings of its JSON array in file order; any
\* other parameter gives no list; without any relay parameter the run ends
\* without a connection.
C17_LoadRelaysFollowsReadme ==
    Resolved =>
        /\ HasWsPrefix(relay) => (relays = <<relay>> /\ failed /= "resolve")
        /\ (relay = RelaysJSON /\ relayFile.ok /\ relayFile.list /= <<>>)
              => relays = relayFile.list
        /\ relay \in {"", NoSuchFile}
              => /\ HasWsPrefix(r) => (relays = <<r>> /\ failed /= "resolve")
                 /\ (r = RelaysJSON /\ relayFile.ok) => relays = relayFile.list
                 /\ r \in {"", NoSuchFile} => (relays = <<>> /\ Dialed = {})
        /\ (relay = "" /\ r = "")
              => (pc \in {"return", "done"} /\ failed = "" /\ wire = <<>>)

\* C17 witness: the relays of a two-entry file were dialed in file order,
\* second entry first in the alphabet
C17_Witness ==
    /\ relay = RelaysJSON
    /\ r = ""
    /\ relayFile.list = <<RelayB, RelayA>>
    /\ relays = <<RelayB, RelayA>>
    /\ Dialed = {1, 2}
    /\ closeLog /= <<>>

(***************************************************************************)
(* Properties of the tag layout.                                           *)
(***************************************************************************)
\* positions of the imeta tags of an event
IMetaPositions(ev) == { j \in 1..Len(ev.Tags) : ev.Tags[j][1] = "imeta" }

\* C18: the tags of a video event built in current mode start with alt,
\* title, published_at and the only imeta tag, in that order; the imeta tag
\* holds url, m, alt, x, size, dim and blurhash in that order, and dim is
\* the width, an x, the height.
C18_VideoTagLayout ==
    (Built /\ ~isLegacy)
        => /\ Len(event.Tags) >= 4
           /\ event.Tags[1][1] = "alt"
           /\ event.Tags[2] = <<"title", title>>
           /\ event.Tags[3] = <<"published_at", publishedAt>>
           /\ IMetaPositions(event) = {4}
           /\ event.Tags[4] =
                 << "imeta",
                    "url " \o videoURL,
                    "m " \o info.mime,
                    "alt " \o event.Tags[1][2],
                    "x " \o info.hash,
                    "size " \o ToString(info.fileSize),
                    "dim " \o ToString(media.width) \o "x" \o ToString(media.height),
                    "blurhash " \o info.bhash >>

\* C18 witness: a current-mode event of a video higher than wide, after Pow
\* has appended its nonce tag
C18_Witness ==
    /\ pc = "sign"
    /\ ~isLegacy
    /\ diff > 0
    /\ media.width = 1
    /\ media.height = 2
    /\ event.Tags[4][7] = "dim 1x2"
    /\ Len(event.Tags) = 5

\* C19: a picture event has the title tag, the published_at tag and then one
\* imeta tag for every -file and every -url given: those of the files in the
\* order of the flags, then those of the URLs in the order of the flags.
C19_OneIMetaPerItemInOrder ==
    (prog = "nip68" /\ Built)
        => LET nf == Len(imageFiles)
               nu == Len(imageURLs)
           IN  /\ event.Tags[1][1] = "title"
               /\ event.Tags[2][1] = "published_at"
               /\ IMetaPositions(event) = 3..(2 + nf + nu)
               /\ \A k \in 1..nf :
                     event.Tags[2 + k][3] = "x sha-" \o imageFiles[k]
               /\ \A k \in 1..nu :
                     event.Tags[2 + nf + k][2] = "url " \o imageURLs[k]

\* C19 witness: a gallery of two different files and two different URLs
C19_Witness ==
    /\ prog = "nip68"
    /\ pc = "sign"
    /\ imageFiles = <<"b.jpg", "a.jpg">>
    /\ imageURLs = <<OtherURL, UserURL>>
    /\ Len(event.Tags) = 6
    /\ event.Tags[4][3] = "x sha-a.jpg"
    /\ event.Tags[5][2] = "url " \o OtherURL

(***************************************************************************)
(* Termination of Pow.                                                     *)
(***************************************************************************)
\* Pow has returned nil with an identifier that meets the target
PowSucceeded ==
    IF pc = "sign" /\ powId /= NoID THEN Difficulty(powId) >= diff ELSE FALSE

\* C20: as long as the search meets no internal fault, Pow with a positive
\* target never returns an error, however many attempts it takes, and it
\* always comes to return nil with a nonce tag whose identifier meets the
\* target.
C20_PowSearchesUntilSuccess ==
    /\ [](failed /= "pow")
    /\ (pc = "pow" /\ diff > 0) ~> PowSucceeded

\* C20 witness: Pow returned nil for the largest target after more than two
\* attempts
C20_Witness ==
    /\ pc = "sign"
    /\ diff = MaxDiff
    /\ nonce >= 2
    /\ event.Tags[Len(event.Tags)] = NonceTag(nonce, diff)

(***************************************************************************)
(* Order of the stages that write the event.                               *)
(***************************************************************************)
\* the stages of a run that write the event, in the order they ran
IsMutation(stage) == stage \in {"build", "pow", "sign"}

Mutations(run) == SelectSeq(run, IsMutation)

\* C21: the stages that write the event run in the order build, proof of
\* work, sign, each at most once; a step changes the event only at one of
\* these three positions of main and only before the event is signed; once
\* the event is signed no step changes any of its fields, during
\* publication included.
C21_BuildPowSignThenFrozen ==
    [][ /\ Mutations(stages') = SubSeq(<<"build", "pow", "sign">>, 1,
                                       Len(Mutations(stages')))
        /\ event' /= event => (pc \in {"build", "pow", "sign"} /\ ~Signed)
        /\ Signed => event' = event ]_vars

\* C21 witness: an event with a nonce tag went through build, proof of
\* work and signing and was published on a retry before the run ended
C21_Witness ==
    /\ pc = "done"
    /\ exit = "ok"
    /\ diff > 0
    /\ Signed
    /\ Mutations(stages) = <<"build", "pow", "sign">>
    /\ \E k \in 1..Len(rl) : rl[k].publishes = 2

(***************************************************************************)
(* Resources: relay connections and temporary files.                       *)
(***************************************************************************)
\* list entries whose connect succeeded
Connected == { k \in 1..Len(rl) : rl[k].connects > 0 /\ rl[k].outcome /= "connectFailed" }

\* C22: every open connection has its close deferred; when PublishEvent has
\* returned no connection is open and every entry whose connect succeeded
\* was closed exactly once, whatever the outcome of its publish, auth and
\* retry; an entry whose connect failed was never open and is never closed.
C22_NoConnectionOutlivesPublishEvent ==
    /\ open = Range(closers)
    /\ open \subseteq Connected
    /\ pc \in {"return", "done"}
          => /\ open = {}
             /\ Range(closeLog) = Connected
             /\ Len(closeLog) = Cardinality(Connected)
    /\ \A k \in 1..Len(rl) :
          rl[k].outcome = "connectFailed"
              => (k \notin open /\ k \notin Range(closeLog))

\* C22 witness: PublishEvent returned after a failed connect, a failed auth
\* submission and a retried publish that failed
C22_Witness ==
    /\ pc = "return"
    /\ Len(rl) = 3
    /\ rl[1].outcome = "connectFailed"
    /\ rl[2].auths = 1 /\ ~rl[2].authOK
    /\ rl[3].publishes = 2 /\ rl[3].outcome = "failed"
    /\ open = {}
    /\ Len(closeLog) = 2

\* C23: when the run has ended, in whatever way, no temporary file it
\* created is left on disk.
C23_NoTemporaryFileIsLeft ==
    pc = "done" => tmpFiles = {}

(***************************************************************************)
(* The per-relay state machine.                                            *)
(***************************************************************************)
\* the state of the machine a list entry is in, read from what PublishEvent
\* has done with the entry.  Connected is passed through within the connect
\* step and AuthChallenged within the first publish step.
RelayState(entry) ==
    IF entry.outcome = "published" THEN "Published"
    ELSE IF entry.outcome = "failed" THEN "Failed"
    ELSE IF entry.outcome = "connectFailed" THEN "ConnectFailed"
    ELSE IF entry.connects = 0 THEN "Connecting"
    ELSE IF entry.publishes = 0 THEN "Publishing"
    ELSE IF entry.publishes = 1 /\ entry.auths = 0 /\ IsAuthRequired(entry.firstErr)
         THEN "AuthSigning"
    ELSE IF entry.publishes = 1 /\ entry.auths = 1 /\ entry.authOK
         THEN "Republishing"
    ELSE "Unlisted"

TerminalStates == { "Published", "Failed", "ConnectFailed" }

\* the transitions of the machine as it is drawn
ListedTransitions ==
    { <<"Connecting", "Publishing">>, <<"Connecting", "ConnectFailed">>,
      <<"Publishing", "Published">>, <<"Publishing", "AuthSigning">>,
      <<"AuthSigning", "Republishing">>,
      <<"Republishing", "Published">>, <<"Republishing", "Failed">> }

\* the two failure transitions the drawing leaves out
FailureTransitions ==
    { <<"Publishing", "Failed">>, <<"AuthSigning", "Failed">> }

\* a step moves the entries only along the transitions T, an entry that was
\* not dialed yet is in Connecting, and all entries are in a terminal state
\* when PublishEvent has returned
MachineStep(T) ==
    /\ Len(rl') = Len(rl)
    /\ \A k \in 1..Len(rl) :
          /\ \/ RelayState(rl'[k]) = RelayState(rl[k])
             \/ <<RelayState(rl[k]), RelayState(rl'[k])>> \in T
          /\ k > idx => RelayState(rl[k]) = "Connecting"
    /\ pc' \in {"return", "done"}
          => \A k \in 1..Len(rl) : RelayState(rl'[k]) \in TerminalStates

\* C24 as stated: PublishEvent takes only the transitions of the machine as
\* it is drawn.
C24_OnlyListedTransitions == [][MachineStep(ListedTransitions)]_vars

\* C24: the handling of every relay is a path of the machine extended by
\* the transitions Publishing -> Failed (a rejection that does not ask for
\* authentication) and AuthSigning -> Failed (a failed auth submission): it
\* starts in Connecting, ends in one terminal state, reaches AuthSigning
\* only from Publishing and Republishing only from AuthSigning after a
\* successful submission.
C24_RefinesExtendedMachine ==
    [][MachineStep(ListedTransitions \cup FailureTransitions)]_vars

\* C24 witness: one call walked the longest path to Published, the path
\* through a failed auth submission and the path of a plain rejection
C24_Witness ==
    /\ pc = "return"
    /\ Len(rl) = 3
    /\ rl[1].publishes = 2 /\ rl[1].outcome = "published"
    /\ rl[2].auths = 1 /\ ~rl[2].authOK /\ rl[2].outcome = "failed"
    /\ rl[3].firstErr = "msg: blocked: spam" /\ rl[3].outcome = "failed"

\* ---- C25 ----
\* the timeout the code gives the context an operation runs on
OwnTimeout(op) == IF op \in {"connect", "publish"} THEN CtxTimeout ELSE Ctx2Timeout

\* every relay of the list was dialed
AllHandled == \A k \in 1..Len(rl) : rl[k].connects > 0

\* C25: each network operation of relay publication runs under its own
\* independent deadline: an operation is ended by a deadline only when the
\* operation by itself took longer than its timeout (never because of the
\* time another operation took), and an expiry never keeps the publisher from
\* handling every other relay of the list before it returns.
C25_DeadlinesAreIndependent ==
    /\ \A k \in 1..Len(rl) : \A n \in 1..Len(rl[k].ops) :
          rl[k].ops[n].expired => rl[k].ops[n].took > OwnTimeout(rl[k].ops[n].op)
    /\ pc \in {"return", "done"} => AllHandled

\* ---- C26 ----
\* the events handed to relay.Publish so far
Transmitted == { wire[n].ev : n \in 1..Len(wire) }

\* C26: the event is read-only once handed to the publisher: no step of
\* PublishEvent changes the event, every publish attempt of the call (first
\* attempts and retries after auth alike) transmits that very event, with the
\* same id, tags, content, pubKey, createdAt and sig, and every auth handshake
\* signed the authentication event it was handed, never the published one.
C26_PublisherNeverChangesTheEvent ==
    [][ /\ event' = event
        /\ \A n \in 1..Len(wire') : wire'[n].ev = event
        /\ \A k \in 1..Len(rl') :
              rl'[k].auths > 0 => rl'[k].authSigned = "authEvent" ]_vars

\* C26 witness: the call has returned after a first attempt on one relay and,
\* on another, an auth handshake and a retried attempt: three transmissions,
\* one event
C26_Witness ==
    /\ pc = "return"
    /\ Len(wire) >= 3
    /\ Transmitted = {event}
    /\ Signed
    /\ \E j, k \in 1..Len(rl) :
          /\ j < k
          /\ rl[j].auths = 1 /\ rl[j].publishes = 2
          /\ rl[k].auths = 0 /\ rl[k].publishes = 1

\* ---- C27 ----
\* the relays whose handling has begun and has not reached a terminal outcome
InProgress == { k \in 1..Len(rl) : rl[k].connects > 0 /\ rl[k].outcome = "" }

\* the relays whose handling has not begun
Untouched == { k \in 1..Len(rl) : rl[k].connects = 0 /\ rl[k].outcome = "" }

\* C27: the publisher handles the relays strictly one after the other in
\* list order: a relay is dialed only after every relay before it in the list
\* has reached a terminal outcome (connect failed, published or failed), so at
\* most one relay is in a non-terminal publishing state at any time, no relay
\* is dialed twice, and PublishEvent returns only after every relay of the
\* list has reached a terminal outcome.
C27_RelaysAreHandledOneByOne ==
    /\ Cardinality(InProgress) <= 1
    /\ \A k \in 1..Len(rl) :
          /\ rl[k].connects <= 1
          /\ rl[k].connects > 0 =>
                \A j \in 1..(k - 1) : RelayState(rl[j]) \in TerminalStates
          /\ k \in InProgress => (k = idx /\ pc \in {"publish", "auth", "republish"})
    /\ pc \in {"return", "done"} =>
          \A k \in 1..Len(rl) : RelayState(rl[k]) \in TerminalStates

\* C27 witness: the second of three relays is in its auth handshake, the first
\* one has been published to, the third has not been dialed
C27_Witness ==
    /\ Len(rl) = 3
    /\ pc = "auth"
    /\ idx = 2
    /\ rl[1].outcome = "published"
    /\ InProgress = {2}
    /\ Untouched = {3}

\* ---- C28 ----
\* the entries in ascending order, as a sequence: the order in which the
\* connections of a set of entries were opened
RECURSIVE Ascending(_)
Ascending(S) ==
    IF S = {} THEN <<>>
    ELSE LET least == CHOOSE k \in S : \A j \in S : k <= j
         IN  <<least>> \o Ascending(S \ {least})

\* C28: the connections PublishEvent opens are closed only when it returns,
\* not when the handling of their relay ends: as long as PublishEvent runs,
\* every relay connected so far, however long ago its handling ended, still
\* has its connection open and nothing has been closed, so the number of
\* open connections is the number of relays connected so far; at the return
\* the closes happen in the reverse of the order of opening.
C28_ConnectionsStayOpenUntilReturn ==
    /\ pc \in {"connect", "publish", "auth", "republish", "pubreturn"} =>
          /\ open = Connected
          /\ closers = Ascending(Connected)
          /\ closeLog = <<>>
    /\ pc \in {"return", "done"} =>
          /\ open = {}
          /\ closeLog = Reverse(Ascending(Connected))

\* C28 witness: three relays, all connected, all handled to their outcome, and
\* PublishEvent about to return: three connections are open at once
C28_Witness ==
    /\ pc = "pubreturn"
    /\ Len(rl) = 3
    /\ \A k \in 1..3 : RelayState(rl[k]) \in {"Published", "Failed"}
    /\ Cardinality(open) = 3
    /\ closeLog = <<>>

\* ---- C29 ----
\* cmd/nip71 was started with a local file
FileGiven == prog = "nip71" /\ videoFile /= ""

TimeOfAnswer(answer, now) ==
    IF answer.uploaded.numeric
    THEN ToString(answer.uploaded.tenths \div 10)
    ELSE ToString(now)

====
